---------------------------- MODULE Spec2Model ----------------------------
(***************************************************************************)
(* Panchang computation engine (panchang/src): the element calculators of  *)
(* Planetary, the window derivation and the orchestrator of Panchang.      *)
(*                                                                         *)
(* Numbers.  The source computes on IEEE doubles; the model computes on    *)
(* exact fixed-point values:                                               *)
(*   - an angle is an integer number of twelfths of a degree, so that      *)
(*     every arc of the source is a whole number of units: 360 deg = 4320, *)
(*     12 deg = 144, 6 deg = 72, 360/27 deg = 160, (360/27)/4 deg = 40,    *)
(*     30 deg = 360.  The element calculators are applied to the grid of   *)
(*     thirds of a degree (multiples of 4 units);                          *)
(*   - a time is an integer number of milliseconds since the epoch, which  *)
(*     is what a Date holds; a quotient such as dayLength / 8 is kept as   *)
(*     an exact fraction until new Date(..) truncates it;                  *)
(*   - a percentage is the exact fraction [num, den].                      *)
(* Rounding of doubles is modelled where it decides a result: the         *)
(* addition of 360 in Panchang.normalizeAngle (FpAdd) and the quotients    *)
(* by 360 / 27 in Planetary.calculateNakshatra (FpDivFloor, on a binary    *)
(* format of Precision significant bits).  The divisions by 12 and 6 and   *)
(* the floor of a quotient by 360 / 27 alone give, on doubles, the floor   *)
(* of the exact quotient up to the last place of the argument.             *)
(***************************************************************************)
EXTENDS Integers, Sequences, FiniteSets, TLC

VARIABLES
    sunLongitude,   \* argument of the element calculators
    moonLongitude,  \* argument of the element calculators
    epc,            \* which calculator has returned ("input" before the call)
    ret,            \* the value the calculator returned
    hostOffset,     \* offset of the host's local time from UTC, in ms
    date,           \* the input Date (ms since the epoch)
    sunrise,        \* argument of the window derivation: a Date or null
    sunset,         \* argument of the window derivation: a Date or null
    wpc,            \* which window derivation has returned
    windows,        \* the value the window derivation returned
    location,       \* the Location argument of calculatePanchang
    useSidereal,    \* the useSidereal argument of calculatePanchang
    oracle,         \* how the Ephemeris answers (fixed for a behaviour)
    ppc,            \* "call" before calculatePanchang runs, "done" after
    result,         \* what calculatePanchang returned, or that it threw
    calls,          \* the calls of calculatePanchang made so far, in order:
                    \* the arguments and the outcome of each
    calculator      \* the PanchangCalculator of the running quick function:
                    \* where control is, and its two Ephemeris instances

evars == <<sunLongitude, moonLongitude, epc, ret>>

wvars == <<hostOffset, date, sunrise, sunset, wpc, windows>>

pvars == <<location, useSidereal, oracle, ppc, result, calls, calculator>>

vars == <<sunLongitude, moonLongitude, epc, ret,
          hostOffset, date, sunrise, sunset, wpc, windows,
          location, useSidereal, oracle, ppc, result, calls, calculator>>

---------------------------------------------------------------------------
(* Bounds of the checked input space *)

\* the Moon longitude argument ranges over the thirds of a degree
\* -NegLon .. MaxLon (360 deg = 1080 thirds)
MaxLon == 1100

NegLon == 20

\* the Sun longitude arguments: 0, 10 deg, 179 deg, the last third of the
\* circle, and one value off the circle on each side
SunLongitudes == {0, 120, 2148, 4316, 4320 + 28, 0 - 20}

MoonLongitudes == { 4 * k : k \in (0 - NegLon) .. MaxLon }

---------------------------------------------------------------------------
(* JavaScript arithmetic *)

\* a % b of JavaScript for b > 0: the remainder has the sign of the dividend
JsRem(a, b) == IF a >= 0 THEN a % b ELSE 0 - ((0 - a) % b)

\* Math.floor(a / b) for b > 0
MathFloorDiv(a, b) == IF a >= 0 THEN a \div b ELSE 0 - (((0 - a) + b - 1) \div b)

MathMin(a, b) == IF a <= b THEN a ELSE b

MathMax(a, b) == IF a >= b THEN a ELSE b

\* table[i] of a JavaScript array (0-based): undefined outside the array
ArrayGet(table, i) == IF i \in 0 .. (Len(table) - 1) THEN table[i + 1] ELSE "undefined"

---------------------------------------------------------------------------
(* Angle constants, in twelfths of a degree *)

FullCircle == 4320

tithi_length == 144

karana_arc == 72

yoga_arc == 160

nakshatra_size == 160

pada_size == 40

rashi_size == 360

---------------------------------------------------------------------------
(* AngleMath *)

\* significant bits of a double of the model (odd, as the 53 of IEEE
\* doubles, so that 360 / 27 is rounded up as it is there)
Precision == 9

RECURSIVE Pow2(_)
Pow2(n) == IF n = 0 THEN 1 ELSE 2 * Pow2(n - 1)

\* The addition of 360 is taken at another scale than the quotients by
\* 360 / 27: the longitudes of the model, multiples of Ulp (thirds of a
\* degree), stand for the doubles of the top binade of the circle,
\* [256 deg, 512 deg), which are Ulp apart; those of [128 deg, 256 deg) are
\* Ulp / 2 apart; the model's unit stands for the finer doubles below.  The
\* sum of 360 and a multiple of Ulp is exact; a value off that grid stands
\* for a double that differs from a longitude by less than the spacing of
\* the doubles near 360.
Ulp == 4

Spacing(x) ==
    LET m == IF x >= 0 THEN x ELSE 0 - x
    IN  IF m >= 256 * 12 THEN Ulp ELSE IF m >= 128 * 12 THEN Ulp \div 2 ELSE 1

\* round x to the nearest multiple of s, a tie to the even multiple
RoundNearestEven(x, s) ==
    LET q == MathFloorDiv(x, s)
        r == x - q * s
    IN  IF 2 * r < s THEN q * s
        ELSE IF 2 * r > s THEN (q + 1) * s
        ELSE IF q % 2 = 0 THEN q * s ELSE (q + 1) * s

\* a + b of two doubles: the exact sum rounded to the nearest double
FpAdd(a, b) == RoundNearestEven(a + b, Spacing(a + b))

\* the least k with num * 2^k >= 2^(Precision - 1) * den, for num > 0
RECURSIVE Shift(_, _)
Shift(num, den) ==
    IF num >= Pow2(Precision - 1) * den THEN 0 ELSE 1 + Shift(2 * num, den)

\* Math.floor(x / y) of the doubles x = num and y = den > 0 (in one unit):
\* the exact quotient rounded to Precision significant bits, then floored
FpDivFloor(num, den) ==
    IF num = 0 THEN 0
    ELSE LET size  == IF num > 0 THEN num ELSE 0 - num
             k     == Shift(size, den)
             m     == RoundNearestEven(size * Pow2(k), den) \div den
             whole == m \div Pow2(k)
         IN  IF num > 0 THEN whole
             ELSE IF m % Pow2(k) = 0 THEN 0 - whole ELSE 0 - whole - 1

\* Panchang.normalizeAngle (private method); angle % 360 is exact
normalizeAngle(angle) ==
    LET normalized == JsRem(angle, FullCircle)
    IN  IF normalized < 0 THEN FpAdd(normalized, FullCircle) ELSE normalized

\* normalizeAngle of utils/index, which planetary.ts imports
utils_normalizeAngle(angle) ==
    LET normalized == JsRem(angle, FullCircle)
    IN  IF normalized < 0 THEN normalized + FullCircle ELSE normalized

---------------------------------------------------------------------------
(* Name tables *)

tithi_names ==
    << "Pratipada", "Dwitiya", "Tritiya", "Chaturthi", "Panchami", "Shashthi",
       "Saptami", "Ashtami", "Navami", "Dashami", "Ekadashi", "Dwadashi",
       "Trayodashi", "Chaturdashi", "Purnima/Amavasya" >>

yoga_names ==
    << "Vishkumbha", "Preeti", "Ayushman", "Saubhagya", "Shobhana", "Atiganda",
       "Sukarman", "Dhriti", "Shoola", "Ganda", "Vriddhi", "Dhruva",
       "Vyaghata", "Harshana", "Vajra", "Siddhi", "Vyatipata", "Variyan",
       "Parigha", "Shiva", "Siddha", "Sadhya", "Shubha", "Shukla",
       "Brahma", "Indra", "Vaidhriti" >>

karana_names ==
    << "Bava", "Balava", "Kaulava", "Taitila", "Gara", "Vanija", "Vishti",
       "Shakuni", "Chatushpada", "Naga", "Kimstughna" >>

NAKSHATRAS ==
    << "Ashwini", "Bharani", "Krittika", "Rohini", "Mrigashira", "Ardra",
       "Punarvasu", "Pushya", "Ashlesha", "Magha", "Purva Phalguni",
       "Uttara Phalguni", "Hasta", "Chitra", "Swati", "Vishakha", "Anuradha",
       "Jyeshtha", "Mula", "Purva Ashadha", "Uttara Ashadha", "Shravana",
       "Dhanishtha", "Shatabhisha", "Purva Bhadrapada", "Uttara Bhadrapada",
       "Revati" >>

---------------------------------------------------------------------------
(* ElementCalculator: Planetary *)

\* the local tithi_number of calculateTithi (the raw index)
tithi_number(sunLon, moonLon) ==
    MathFloorDiv(utils_normalizeAngle(moonLon - sunLon), tithi_length) + 1

\* calculateTithi with the full-moon tithi counted into the waning half
calculateTithi_waxingBelow15(sunLon, moonLon) ==
    LET elongation == utils_normalizeAngle(moonLon - sunLon)
        number     == tithi_number(sunLon, moonLon)
        remainder  == JsRem(elongation, tithi_length)
        is_waxing  == number < 15
        final_tithi == IF number < 15 THEN number ELSE number - 15
        tithi_name ==
            IF final_tithi = 15
            THEN (IF is_waxing THEN "Purnima" ELSE "Amavasya")
            ELSE ArrayGet(tithi_names, final_tithi - 1)
    IN  [ tithi      |-> final_tithi,
          name       |-> tithi_name,
          percentage |-> [num |-> remainder * 100, den |-> tithi_length],
          isWaxing   |-> is_waxing ]

\* calculateTithi with the percentage taken of the elongation, not of its
\* remainder within the tithi
calculateTithi_percentOfElongation(sunLon, moonLon) ==
    LET elongation == utils_normalizeAngle(moonLon - sunLon)
        number     == tithi_number(sunLon, moonLon)
        is_waxing  == number <= 15
        final_tithi == IF number <= 15 THEN number ELSE number - 15
        tithi_name ==
            IF final_tithi = 15
            THEN (IF is_waxing THEN "Purnima" ELSE "Amavasya")
            ELSE ArrayGet(tithi_names, final_tithi - 1)
    IN  [ tithi      |-> final_tithi,
          name       |-> tithi_name,
          percentage |-> [num |-> elongation * 100, den |-> tithi_length],
          isWaxing   |-> is_waxing ]

calculateTithi(sunLon, moonLon) ==
    LET elongation == utils_normalizeAngle(moonLon - sunLon)
        number     == tithi_number(sunLon, moonLon)
        remainder  == JsRem(elongation, tithi_length)
        is_waxing  == number <= 15
        final_tithi == IF number <= 15 THEN number ELSE number - 15
        tithi_name ==
            IF final_tithi = 15
            THEN (IF is_waxing THEN "Purnima" ELSE "Amavasya")
            ELSE ArrayGet(tithi_names, final_tithi - 1)
    IN  [ tithi      |-> final_tithi,
          name       |-> tithi_name,
          percentage |-> [num |-> remainder * 100, den |-> tithi_length],
          isWaxing   |-> is_waxing ]

\* calculateYoga computed from the difference of the longitudes
calculateYoga_ofDifference(sunLon, moonLon) ==
    LET sum        == utils_normalizeAngle(moonLon - sunLon)
        raw_index  == MathFloorDiv(sum, yoga_arc)
        yoga_index == MathMax(0, MathMin(26, raw_index))
    IN  [ yoga |-> yoga_index + 1, name |-> ArrayGet(yoga_names, yoga_index) ]

calculateYoga(sunLon, moonLon) ==
    LET sum        == utils_normalizeAngle(sunLon + moonLon)
        raw_index  == MathFloorDiv(sum, yoga_arc)
        yoga_index == MathMax(0, MathMin(26, raw_index))
    IN  [ yoga |-> yoga_index + 1, name |-> ArrayGet(yoga_names, yoga_index) ]

\* the local karana_index of calculateKarana (the cycle index)
karana_index(sunLon, moonLon) ==
    MathFloorDiv(utils_normalizeAngle(moonLon - sunLon), karana_arc)

\* calculateKarana with the fixed karanas starting one slot early
calculateKarana_fixedFrom56(sunLon, moonLon) ==
    LET index       == karana_index(sunLon, moonLon)
        fixed_index == MathMin(3, index - 56)
        final_index == IF index < 56 THEN JsRem(index, 7) ELSE 7 + fixed_index
        karana_number == IF index < 56 THEN index + 1 ELSE 57 + fixed_index
        clamped     == MathMin(MathMax(0, final_index), Len(karana_names) - 1)
    IN  [ karana |-> karana_number,
          name   |-> ArrayGet(karana_names, clamped),
          nameIndex |-> clamped ]

\* calculateKarana numbering the fixed karanas from 57
calculateKarana_serialFrom57(sunLon, moonLon) ==
    LET index       == karana_index(sunLon, moonLon)
        fixed_index == MathMin(3, index - 57)
        final_index == IF index < 57 THEN JsRem(index, 7) ELSE 7 + fixed_index
        karana_number == IF index < 57 THEN index + 1 ELSE 57 + fixed_index
        clamped     == MathMin(MathMax(0, final_index), Len(karana_names) - 1)
    IN  [ karana |-> karana_number,
          name   |-> ArrayGet(karana_names, clamped),
          nameIndex |-> clamped ]

\* the field nameIndex is the local final_index, kept beside the name
calculateKarana(sunLon, moonLon) ==
    LET index       == karana_index(sunLon, moonLon)
        fixed_index == MathMin(3, index - 57)
        final_index == IF index < 57 THEN JsRem(index, 7) ELSE 7 + fixed_index
        karana_number == IF index < 57 THEN index + 1 ELSE 58 + fixed_index
        clamped     == MathMin(MathMax(0, final_index), Len(karana_names) - 1)
    IN  [ karana |-> karana_number,
          name   |-> ArrayGet(karana_names, clamped),
          nameIndex |-> clamped ]

\* The doubles of calculateNakshatra are counted in Fine-ths of the unit:
\* the doubles of [8 deg, 16 deg), where 360 / 27 lies, are 12 of them
\* apart, and those of [2 deg, 4 deg), where its quarter lies, 3 apart.
Fine == Pow2(Precision - 4)

\* const nakshatra_size = 360 / 27: the double nearest the exact quotient
nakshatra_size_double == RoundNearestEven(nakshatra_size * Fine, 12)

\* whether a longitude is a double of the format: a whole number of degrees
IsDoubleLongitude(longitude) == longitude % 12 = 0

\* calculateNakshatra(longitude), the longitude a double; x % y is exact.
\* NAKSHATRAS[nakshatra_number].name throws a TypeError when the entry is
\* undefined: the call then returns nothing (threw = TRUE).  The field
\* degree is in Fine-ths of the unit.
calculateNakshatra(longitude) ==
    LET nakshatra_number    == FpDivFloor(longitude * Fine, nakshatra_size_double)
        degree_in_nakshatra == JsRem(longitude * Fine, nakshatra_size_double)
        pada == FpDivFloor(degree_in_nakshatra, nakshatra_size_double \div 4) + 1
    IN  IF nakshatra_number \in 0 .. (Len(NAKSHATRAS) - 1)
        THEN [ threw     |-> FALSE,
               nakshatra |-> nakshatra_number + 1,
               name      |-> NAKSHATRAS[nakshatra_number + 1],
               pada      |-> pada,
               degree    |-> degree_in_nakshatra ]
        ELSE [ threw     |-> TRUE,
               nakshatra |-> nakshatra_number + 1,
               name      |-> "undefined",
               pada      |-> pada,
               degree    |-> degree_in_nakshatra ]

RASHIS ==
    << "Mesha", "Vrishabha", "Mithuna", "Karka", "Simha", "Kanya", "Tula",
       "Vrishchika", "Dhanu", "Makara", "Kumbha", "Meena" >>

\* calculateRashi(longitude): RASHIS[rashi_number].name throws a TypeError
\* when the entry is undefined (threw = TRUE)
calculateRashi(longitude) ==
    LET rashi_number   == MathFloorDiv(longitude, rashi_size)
        degree_in_rashi == JsRem(longitude, rashi_size)
    IN  IF rashi_number \in 0 .. (Len(RASHIS) - 1)
        THEN [ threw  |-> FALSE,
               rashi  |-> rashi_number + 1,
               name   |-> RASHIS[rashi_number + 1],
               degree |-> degree_in_rashi ]
        ELSE [ threw  |-> TRUE,
               rashi  |-> rashi_number + 1,
               name   |-> "undefined",
               degree |-> degree_in_rashi ]

---------------------------------------------------------------------------
(* The element calculators applied to every argument pair *)

\* the variables of the element calculators, when they are not under check
IdleElements ==
    /\ sunLongitude = 0
    /\ moonLongitude = 0
    /\ epc = "idle"
    /\ ret = [none |-> TRUE]

\* the variables of the window derivation, when it is not under check
IdleWindows ==
    /\ hostOffset = 0
    /\ date = 0
    /\ sunrise = << >>
    /\ sunset = << >>
    /\ wpc = "idle"
    /\ windows = [none |-> TRUE]

\* no quick function is running: no calculator exists
NoCalculator ==
    [ entry |-> "none", at |-> "outside", own |-> "none", inner |-> "none",
      outcome |-> "none" ]

\* the variables of calculatePanchang, when it is not under check
IdlePanchang ==
    /\ location = [timezone |-> "UTC"]
    /\ useSidereal = TRUE
    /\ oracle = [none |-> TRUE]
    /\ ppc = "idle"
    /\ result = [none |-> TRUE]
    /\ calls = << >>
    /\ calculator = NoCalculator

InitElements ==
    /\ sunLongitude \in SunLongitudes
    /\ moonLongitude \in MoonLongitudes
    /\ epc = "input"
    /\ ret = [none |-> TRUE]
    /\ IdleWindows
    /\ IdlePanchang

\* the angles normalizeAngle is applied to: the difference and the sum of
\* the longitudes, values within one Ulp of them, and several turns away
NormalizeArguments(sunLon, moonLon) ==
    { moonLon - sunLon + d : d \in (0 - Ulp) .. Ulp }
        \cup { sunLon + moonLon, 3 * moonLon, 0 - (3 * moonLon) }

CallNormalizeAngle ==
    /\ epc = "input"
    /\ epc' = "normalizeAngle"
    /\ \E angle \in NormalizeArguments(sunLongitude, moonLongitude) :
            ret' = [ angle |-> angle,
                     value |-> normalizeAngle(angle),
                     again |-> normalizeAngle(normalizeAngle(angle)) ]
    /\ UNCHANGED <<sunLongitude, moonLongitude>>
    /\ UNCHANGED <<wvars, pvars>>

CallTithi ==
    /\ epc = "input"
    /\ epc' = "tithi"
    /\ ret' = calculateTithi(sunLongitude, moonLongitude)
    /\ UNCHANGED <<sunLongitude, moonLongitude>>
    /\ UNCHANGED <<wvars, pvars>>

CallYoga ==
    /\ epc = "input"
    /\ epc' = "yoga"
    /\ ret' = calculateYoga(sunLongitude, moonLongitude)
    /\ UNCHANGED <<sunLongitude, moonLongitude>>
    /\ UNCHANGED <<wvars, pvars>>

CallKarana ==
    /\ epc = "input"
    /\ epc' = "karana"
    /\ ret' = calculateKarana(sunLongitude, moonLongitude)
    /\ UNCHANGED <<sunLongitude, moonLongitude>>
    /\ UNCHANGED <<wvars, pvars>>

CallNakshatra ==
    /\ epc = "input"
    /\ IsDoubleLongitude(moonLongitude)
    /\ epc' = "nakshatra"
    /\ ret' = calculateNakshatra(moonLongitude)
    /\ UNCHANGED <<sunLongitude, moonLongitude>>
    /\ UNCHANGED <<wvars, pvars>>

CallRashi ==
    /\ epc = "input"
    /\ epc' = "rashi"
    /\ ret' = calculateRashi(moonLongitude)
    /\ UNCHANGED <<sunLongitude, moonLongitude>>
    /\ UNCHANGED <<wvars, pvars>>

NextElements ==
    \/ CallNormalizeAngle
    \/ CallTithi
    \/ CallYoga
    \/ CallKarana
    \/ CallNakshatra
    \/ CallRashi

SpecElements == InitElements /\ [][NextElements]_vars

---------------------------------------------------------------------------
(* Claims about the element calculators (SpecElements) *)

\* what the specification calls normalize: the value of [0, 360) congruent
\* to the angle
Normalized(angle) == angle % FullCircle

Elongation == Normalized(moonLongitude - sunLongitude)

LongitudeSum == Normalized(sunLongitude + moonLongitude)

\* the raw index of the lunar day: the k with 12(k-1) <= elongation < 12k
RawIndex == CHOOSE k \in 1 .. 31 :
                tithi_length * (k - 1) <= Elongation /\ Elongation < tithi_length * k

\* the cycle index of the half lunar day: the c with 6c <= elongation < 6(c+1)
CycleIndex == CHOOSE c \in 0 .. 60 :
                karana_arc * c <= Elongation /\ Elongation < karana_arc * (c + 1)

\* C1: for every pair of longitudes calculateTithi's raw index is
\* floor(normalize(moon - sun) / 12) + 1 and lies in 1..30, the returned
\* index is the raw index when that is <= 15 and the raw index - 15
\* otherwise, so it lies in 1..15, and isWaxing is true exactly when the raw
\* index is <= 15.
C1_TithiIndexAndPaksha ==
    epc = "tithi" =>
        /\ tithi_number(sunLongitude, moonLongitude) = RawIndex
        /\ RawIndex \in 1 .. 30
        /\ ret.tithi \in 1 .. 15
        /\ ret.tithi = (IF RawIndex <= 15 THEN RawIndex ELSE RawIndex - 15)
        /\ ret.isWaxing <=> (RawIndex <= 15)

\* the full-moon tithi (raw index 15, waxing) and the new-moon tithi (raw
\* index 30, waning) have both been returned
C1_Witness ==
    /\ epc = "tithi"
    /\ RawIndex = 30
    /\ ret.tithi = 15
    /\ ~ ret.isWaxing
    /\ ret.name = "Amavasya"

\* C2: cycle index 0..56 gives the movable name of index cycleIndex mod 7
\* and serial cycleIndex + 1; cycle index 57..59 gives a fixed name whose
\* index is in {7,8,9,10} and strictly increases with the cycle index, with
\* serial 58 + min(3, cycleIndex - 57).
C2_KaranaBranches ==
    epc = "karana" =>
        /\ karana_index(sunLongitude, moonLongitude) = CycleIndex
        /\ CycleIndex \in 0 .. 59
        /\ CycleIndex <= 56 =>
              /\ ret.nameIndex = CycleIndex % 7
              /\ ret.name = karana_names[(CycleIndex % 7) + 1]
              /\ ret.karana = CycleIndex + 1
        /\ CycleIndex >= 57 =>
              /\ ret.nameIndex \in {7, 8, 9, 10}
              /\ ret.name = karana_names[ret.nameIndex + 1]
              /\ ret.karana = 58 + MathMin(3, CycleIndex - 57)
        \* strictly increasing: the slot before a fixed slot after the first
        \* has a smaller name index
        /\ CycleIndex >= 58 =>
              calculateKarana(sunLongitude, moonLongitude - karana_arc).nameIndex
                  < ret.nameIndex

\* a fixed karana has been returned for the last slot of the cycle
C2_Witness ==
    /\ epc = "karana"
    /\ CycleIndex = 59
    /\ ret.name = "Naga"
    /\ ret.karana = 60

FixedKaranaNames == {"Shakuni", "Chatushpada", "Naga", "Kimstughna"}

\* the name calculateKarana gives slot c of the cycle that holds the
\* current elongation
NameOfSlot(c) ==
    calculateKarana(sunLongitude, moonLongitude + karana_arc * (c - CycleIndex)).name

\* C3: the last four slots of the cycle (cycle index 56, 57, 58, 59) are
\* each given one of the four fixed names, one slot per fixed name.
C3_LastFourSlotsFixed ==
    (epc = "karana" /\ CycleIndex \in 56 .. 59) =>
        /\ ret.name \in FixedKaranaNames
        /\ { NameOfSlot(c) : c \in 56 .. 59 } = FixedKaranaNames

\* C4: calculateYoga returns clamp(floor(normalize(sun + moon)/(360/27)),
\* 0, 26) + 1, always in 1..27, non-decreasing as the normalized sum grows
\* from 0 to 360 and back at 1 when the sum wraps.
C4_YogaIndexMonotone ==
    epc = "yoga" =>
        LET k == CHOOSE i \in 0 .. 27 :
                    yoga_arc * i <= LongitudeSum /\ LongitudeSum < yoga_arc * (i + 1)
            before == calculateYoga(sunLongitude, moonLongitude - 4).yoga
        IN  /\ ret.yoga = MathMax(0, MathMin(26, k)) + 1
            /\ ret.yoga \in 1 .. 27
            /\ ret.name = yoga_names[ret.yoga]
            /\ LongitudeSum >= 4 => before <= ret.yoga
            /\ LongitudeSum < 4 => (ret.yoga = 1 /\ before = 27)

\* the last yoga of the circle has been returned
C4_Witness ==
    /\ epc = "yoga"
    /\ LongitudeSum = FullCircle - 4
    /\ ret.yoga = 27
    /\ ret.name = "Vaidhriti"

\* C5: normalizeAngle returns a value in [0, 360) for every angle and is
\* idempotent.
C5_NormalizeRangeIdempotent ==
    epc = "normalizeAngle" =>
        /\ 0 <= ret.value
        /\ ret.value < FullCircle
        /\ ret.again = ret.value

\* C6: for a Moon longitude in [0, 360) calculateNakshatra returns
\* index = floor(longitude / (360/27)) + 1 in 1..27 and
\* pada = floor((longitude mod (360/27)) / ((360/27)/4)) + 1 in 1..4,
\* that is, the mansion and the quarter of it the longitude lies in;
\* longitude 200 gives index 16.
C6_NakshatraIndexPada ==
    (epc = "nakshatra" /\ moonLongitude >= 0 /\ moonLongitude < FullCircle) =>
        LET start == nakshatra_size * (ret.nakshatra - 1)
        IN  /\ ~ ret.threw
            /\ ret.nakshatra \in 1 .. 27
            /\ start <= moonLongitude
            /\ moonLongitude < start + nakshatra_size
            /\ ret.pada \in 1 .. 4
            /\ start + pada_size * (ret.pada - 1) <= moonLongitude
            /\ moonLongitude < start + pada_size * ret.pada
            /\ ret.name = NAKSHATRAS[ret.nakshatra]
            /\ moonLongitude = 200 * 12 => ret.nakshatra = 16

\* C7: calculateTithi returns percentage = (normalize(moon - sun) mod 12) /
\* 12 * 100, which lies in [0, 100); Sun 10 and Moon 100 give raw index 8,
\* waxing, percentage 50.
C7_TithiPercentage ==
    epc = "tithi" =>
        /\ ret.percentage.den = tithi_length
        /\ ret.percentage.num = (Elongation - tithi_length * (RawIndex - 1)) * 100
        /\ 0 <= ret.percentage.num
        /\ ret.percentage.num < 100 * ret.percentage.den
        /\ (sunLongitude = 10 * 12 /\ moonLongitude = 100 * 12) =>
              /\ RawIndex = 8
              /\ ret.tithi = 8
              /\ ret.isWaxing
              /\ ret.percentage.num = 50 * ret.percentage.den

\* the scenario Sun 10, Moon 100 has been computed
C7_Witness ==
    /\ epc = "tithi"
    /\ sunLongitude = 10 * 12
    /\ moonLongitude = 100 * 12
    /\ ret.percentage.num = 50 * ret.percentage.den

---------------------------------------------------------------------------
(* Dates *)

\* an absent value (null or undefined); a present Date is the one-element
\* sequence of its time value
null == << >>

Some(t) == << t >>

getTime(d) == d[1]

MsPerMinute == 60 * 1000

MsPerHour == 60 * 60 * 1000

MsPerDay == 24 * 60 * 60 * 1000

\* new Date(whole + num / den) for an integer whole and den > 0: the time
\* value is the number truncated toward zero (TimeClip)
NewDate(whole, num, den) ==
    LET f     == MathFloorDiv(num, den)
        exact == (num = f * den)
    IN  IF whole + f >= 0 \/ exact THEN whole + f ELSE whole + f + 1

\* Date.prototype.getDay in the host's time zone (1 January 1970 was a
\* Thursday)
getDay(d) == (MathFloorDiv(d + hostOffset, MsPerDay) + 4) % 7

---------------------------------------------------------------------------
(* WindowDerivation: Panchang.calculateKalam and Panchang.calculateMuhurat *)

rahuKaalPeriod == << 4, 1, 6, 3, 2, 5, 0 >>

gulikaiKaalPeriod == << 6, 5, 4, 3, 2, 1, 0 >>

yamagandaKaalPeriod == << 5, 4, 3, 2, 1, 0, 6 >>

Window(s, e) == [start |-> s, end |-> e]

\* the windows read off the empty object {}: every bound is undefined
NoWindow == Window(null, null)

\* one kalam with the day divided into 7 segments instead of 8
KalamWindow_seventh(rise, dayLength, period) ==
    LET start == NewDate(rise, period * dayLength, 7)
    IN  Window(Some(start), Some(NewDate(start, dayLength, 7)))

\* one kalam as an eighth of the 24 hours from the sunrise
KalamWindow_ofFullDay(rise, dayLength, period) ==
    LET start == NewDate(rise, period * MsPerDay, 8)
    IN  Window(Some(start), Some(NewDate(start, MsPerDay, 8)))

\* one kalam: start = new Date(sunrise + period * oneEighth),
\* end = new Date(start.getTime() + oneEighth), with oneEighth = dayLength / 8
KalamWindow(rise, dayLength, period) ==
    LET start == NewDate(rise, period * dayLength, 8)
    IN  Window(Some(start), Some(NewDate(start, dayLength, 8)))

\* calculateKalam with zero-length windows at the one known bound when sunrise
\* or sunset is missing
calculateKalam_zeroLengthFallback(day, rise, set) ==
    IF rise = null \/ set = null
    THEN LET known == IF rise # null THEN rise ELSE set
         IN  [ rahu |-> Window(known, known), gulikai |-> Window(known, known),
               yamaganda |-> Window(known, known) ]
    ELSE LET dayLength == getTime(set) - getTime(rise)
         IN  [ rahu      |-> KalamWindow(getTime(rise), dayLength, rahuKaalPeriod[day + 1]),
               gulikai   |-> KalamWindow(getTime(rise), dayLength, gulikaiKaalPeriod[day + 1]),
               yamaganda |-> KalamWindow(getTime(rise), dayLength, yamagandaKaalPeriod[day + 1]) ]

\* calculateKalam(date, location, sunrise, sunset); day = date.getDay()
calculateKalam(day, rise, set) ==
    IF rise = null \/ set = null
    THEN [ rahu |-> NoWindow, gulikai |-> NoWindow, yamaganda |-> NoWindow ]
    ELSE LET dayLength == getTime(set) - getTime(rise)
         IN  [ rahu      |-> KalamWindow(getTime(rise), dayLength, rahuKaalPeriod[day + 1]),
               gulikai   |-> KalamWindow(getTime(rise), dayLength, gulikaiKaalPeriod[day + 1]),
               yamaganda |-> KalamWindow(getTime(rise), dayLength, yamagandaKaalPeriod[day + 1]) ]

\* a muhurat window whose end is computed from its truncated start, as the
\* end of a kalam window is
MuhuratWindow_endFromStart(base, length, a, b) ==
    LET start == NewDate(base, a * length, 15)
    IN  Window(Some(start), Some(NewDate(start, (b - a) * length, 15)))

\* [new Date(base + a * length / 15), new Date(base + b * length / 15)]
MuhuratWindow(base, length, a, b) ==
    Window(Some(NewDate(base, a * length, 15)), Some(NewDate(base, b * length, 15)))

\* calculateMuhurat(date, location, sunrise, sunset); amritKalam is a list
calculateMuhurat(rise, set) ==
    IF rise = null \/ set = null
    THEN [ abhijita |-> NoWindow, amritKalam |-> << >>,
           sarvarthaSiddhiYoga |-> "undefined", amritSiddhiYoga |-> NoWindow,
           vijaya |-> NoWindow, godhuli |-> NoWindow, sayahnaSandhya |-> NoWindow,
           nishita |-> NoWindow, brahma |-> NoWindow, pratahSandhya |-> NoWindow ]
    ELSE LET r == getTime(rise)
             t == getTime(set)
             dayLength   == t - r
             nightLength == MsPerDay - dayLength
         IN  [ abhijita   |-> MuhuratWindow(r, dayLength, 7, 8),
               amritKalam |-> << MuhuratWindow(r, dayLength, 6, 7) >>,
               sarvarthaSiddhiYoga |-> "Ahoratri",
               amritSiddhiYoga |-> MuhuratWindow(r, dayLength, 2, 3),
               vijaya     |-> MuhuratWindow(r, dayLength, 11, 12),
               godhuli    |-> Window(Some(t - 24 * MsPerMinute), Some(t + 24 * MsPerMinute)),
               sayahnaSandhya |-> Window(Some(t - 12 * MsPerMinute), Some(t + 12 * MsPerMinute)),
               nishita    |-> MuhuratWindow(t, nightLength, 7, 8),
               brahma     |-> MuhuratWindow(r, nightLength, 0 - 2, 0 - 1),
               pratahSandhya |-> Window(Some(NewDate(r, 0 - nightLength, 15)), rise) ]

---------------------------------------------------------------------------
(* The window derivation applied to every weekday and sunrise/sunset pair *)

\* sunrise is 06:00:00.000 UTC of the second day of the epoch plus
\* 0 .. MaxRiseMs milliseconds
MaxRiseMs == 1

\* the day lengths are 12 h, 10 h 30 min and 0, each plus 0 .. MaxDayMs
\* milliseconds, one negative length (a sunset before the sunrise), 24 h
\* and one length above 24 h
MaxDayMs == 15

\* the input Date is 09:30 UTC of each of the first DayCount days
DayCount == 7

HostOffsets == { 0, 330 * MsPerMinute, 0 - 8 * MsPerHour }

InputDates == { d * MsPerDay + 9 * MsPerHour + 30 * MsPerMinute : d \in 0 .. (DayCount - 1) }

Sunrises == { Some(MsPerDay + 6 * MsPerHour + j) : j \in 0 .. MaxRiseMs }

DayLengths ==
    { base + j : base \in { 12 * MsPerHour, 630 * MsPerMinute, 0 }, j \in 0 .. MaxDayMs }
        \cup { 0 - 3, MsPerDay, MsPerDay + 15 }

InitWindows ==
    /\ hostOffset \in HostOffsets
    /\ date \in InputDates
    /\ sunrise \in Sunrises \cup {null}
    /\ \/ sunset = null
       \/ \E len \in DayLengths :
             sunset = Some(MsPerDay + 6 * MsPerHour + len)
       \/ /\ sunrise # null
          /\ \E len \in DayLengths : sunset = Some(getTime(sunrise) + len)
    /\ wpc = "input"
    /\ windows = [none |-> TRUE]
    /\ IdleElements
    /\ IdlePanchang

CallKalam ==
    /\ wpc = "input"
    /\ wpc' = "kalam"
    /\ windows' = calculateKalam(getDay(date), sunrise, sunset)
    /\ UNCHANGED <<hostOffset, date, sunrise, sunset>>
    /\ UNCHANGED <<evars, pvars>>

CallMuhurat ==
    /\ wpc = "input"
    /\ wpc' = "muhurat"
    /\ windows' = calculateMuhurat(sunrise, sunset)
    /\ UNCHANGED <<hostOffset, date, sunrise, sunset>>
    /\ UNCHANGED <<evars, pvars>>

NextWindows ==
    \/ CallKalam
    \/ CallMuhurat

SpecWindows == InitWindows /\ [][NextWindows]_vars

---------------------------------------------------------------------------
(* Claims about the window derivation (SpecWindows) *)

KalamNames == {"rahu", "gulikai", "yamaganda"}

\* the segment index the weekday table of a kalam gives the input Date
SegmentIndex(kalam) ==
    CASE kalam = "rahu"      -> rahuKaalPeriod[getDay(date) + 1]
      [] kalam = "gulikai"   -> gulikaiKaalPeriod[getDay(date) + 1]
      [] kalam = "yamaganda" -> yamagandaKaalPeriod[getDay(date) + 1]

DayLength == getTime(sunset) - getTime(sunrise)

KalamReturned == wpc = "kalam" /\ sunrise # null /\ sunset # null

\* the scenario of the specification: sunrise 06:00, sunset 18:00, and a
\* kalam whose weekday has segment index 4 is the window [12:00, 13:30]
KalamScenario ==
    (getTime(sunrise) = MsPerDay + 6 * MsPerHour /\ DayLength = 12 * MsPerHour) =>
        \A k \in KalamNames :
            SegmentIndex(k) = 4 =>
                windows[k] = Window(Some(MsPerDay + 12 * MsPerHour),
                                    Some(MsPerDay + 13 * MsPerHour + 30 * MsPerMinute))

Floor8(num) == CHOOSE f \in ((num \div 8) - 1) .. ((num \div 8) + 1) :
                    8 * f <= num /\ num < 8 * (f + 1)

---------------------------------------------------------------------------
(* The position oracle: Ephemeris (calculations/ephemeris)               *)
(*                                                                         *)
(* The oracle of a behaviour is a record:                                  *)
(*   sunrise, sunset, moonrise, moonset : how the rise/set call for the    *)
(*       input Date answers: [kind |-> "date", time |-> t], or kind "null" *)
(*       (no such event), or kind "throw" (the call raises an error);      *)
(*   sun0, moon0, moonRate : the tropical longitudes, Sun fixed, Moon      *)
(*       moon0 at the epoch and moonRate units further each hour;          *)
(*   moonShort : what the Moon's longitude is short of that value, in      *)
(*       millionths of a unit (0 wherever the element calculators are      *)
(*       applied to the longitudes);                                       *)
(*   ayanamsa : the sidereal correction;                                   *)
(*   failing, failingCall : the instants for which the call failingCall    *)
(*       ("position" or "ayanamsa") raises an error.                       *)
(***************************************************************************)

Returned(v) == [threw |-> FALSE, value |-> v]

Thrown == [threw |-> TRUE, value |-> null]

\* the instants for which the failing call of the oracle raises an error
OracleFailsAt(t) ==
    CASE oracle.failing = "never"           -> FALSE
      [] oracle.failing = "atInputDate"     -> t = date
      [] oracle.failing = "exceptInputDate" -> t # date
      [] oracle.failing = "fromNextDay"     ->
            t >= (MathFloorDiv(date, MsPerDay) + 1) * MsPerDay
      [] oracle.failing = "always"          -> TRUE

PositionThrows(t) == oracle.failingCall = "position" /\ OracleFailsAt(t)

AyanamsaThrows(t) == oracle.failingCall = "ayanamsa" /\ OracleFailsAt(t)

\* Ephemeris.calculatePosition(t, body).longitude
TropicalLongitude(t, body) ==
    IF body = "Sun"
    THEN oracle.sun0
    ELSE (oracle.moon0 + oracle.moonRate * MathFloorDiv(t, MsPerHour)) % FullCircle

\* Ephemeris.calculateSunrise / Sunset / Moonrise / Moonset (inputDate, location)
RiseSetCall(response) ==
    CASE response.kind = "date"  -> Returned(Some(response.time))
      [] response.kind = "null"  -> Returned(null)
      [] response.kind = "throw" -> Thrown

\* Ephemeris.calculateNakshatra(longitude), as the specification gives the
\* lunar mansion: index = floor(longitude / arc) + 1, pada within the arc
ephemeris_calculateNakshatra(longitude) ==
    LET number == MathMax(0, MathMin(26, MathFloorDiv(longitude, nakshatra_size)))
        degree == longitude - number * nakshatra_size
    IN  [ nakshatra |-> number + 1,
          name      |-> NAKSHATRAS[number + 1],
          pada      |-> MathMax(1, MathMin(4, MathFloorDiv(degree, pada_size) + 1)) ]

---------------------------------------------------------------------------
(* Timezone localization *)

\* the offset from UTC of the wall clock of an IANA zone, in ms
ZoneOffset(timeZone) ==
    CASE timeZone = "UTC"          -> 0
      [] timeZone = "Asia/Kolkata" -> 330 * MsPerMinute

\* toTimeZone(date, timeZone): the Date whose UTC fields are the wall-clock
\* fields (year .. second) of the instant in the zone
toTimeZone(t, timeZone) ==
    MathFloorDiv(t + ZoneOffset(timeZone), 1000) * 1000

\* adjust = dt => dt ? toTimeZone(dt, tz) : null
adjust(dt) == IF dt = null THEN null ELSE Some(toTimeZone(getTime(dt), location.timezone))

---------------------------------------------------------------------------
(* TransitionEstimator: the end-time methods of Panchang *)

\* daily motions, in thousandths of a degree per day
moonDailyMotion == 13200

sunDailyMotion == 985

SweepHours == 48

\* the sidereal position with an error of calculate_lahiri_ayanamsa not
\* reaching the catch block
SiderealThrows_positionOnly(t) == PositionThrows(t)

\* whether a call the sidereal position at t needs raises an error
SiderealThrows(t) == PositionThrows(t) \/ AyanamsaThrows(t)

\* this.normalizeAngle(position.longitude - ayanamsa)
SiderealLongitude(t, body) == normalizeAngle(TropicalLongitude(t, body) - oracle.ayanamsa)

\* millionths of a unit in a unit
Millionth == 1000000

\* the millionths of a unit by which the Moon's longitude, and so the
\* elongation and the sum of the longitudes, is short of its value in units
MoonShort == oracle.moonShort

\* Math.floor(quantity / arc) for a quantity that is short millionths of a
\* unit below the value units of the circle
ShortFloor(units, short, arc) ==
    IF short = 0 THEN MathFloorDiv(units, arc)
    ELSE MathFloorDiv((IF units = 0 THEN FullCircle ELSE units) - 1, arc)

\* new Date(date.getTime() + (gap / rate) * 24 * 60 * 60 * 1000), the gap in
\* units (twelfths of a degree) plus short millionths of a unit, and the
\* rate in thousandths of a degree a day:
\* gap / 12 / (rate / 1000) days = gap * 7200000 * 1000 / rate ms, and a
\* millionth of a unit takes 7200 / rate ms; new Date drops the fraction
RateEndTime(t, gap, short, rate) ==
    LET x == gap * 7200000
        q == x \div rate
        r == x % rate
    IN  Some(t + q * 1000 + ((r * 1000 + short * 7200) \div rate))

\* calculateTithiEndTime aiming at the end of the tithi after the current one
calculateTithiEndTime_boundaryAfterNext(t) ==
    IF SiderealThrows(t) THEN null
    ELSE LET sunLon  == SiderealLongitude(t, "Sun")
             moonLon == SiderealLongitude(t, "Moon")
             currentElongation == normalizeAngle(moonLon - sunLon)
             currentTithiNum == ShortFloor(currentElongation, MoonShort, tithi_length) + 1
             nextTithiElongation == (currentTithiNum + 1) * tithi_length
             targetMoonLon == normalizeAngle(sunLon + nextTithiElongation)
             longitudeDiff == normalizeAngle(targetMoonLon - moonLon)
         IN  RateEndTime(t, longitudeDiff, MoonShort, moonDailyMotion)

calculateTithiEndTime(t) ==
    IF SiderealThrows(t) THEN null
    ELSE LET sunLon  == SiderealLongitude(t, "Sun")
             moonLon == SiderealLongitude(t, "Moon")
             currentElongation == normalizeAngle(moonLon - sunLon)
             currentTithiNum == ShortFloor(currentElongation, MoonShort, tithi_length) + 1
             nextTithiElongation == currentTithiNum * tithi_length
             targetMoonLon == normalizeAngle(sunLon + nextTithiElongation)
             longitudeDiff == normalizeAngle(targetMoonLon - moonLon)
         IN  RateEndTime(t, longitudeDiff, MoonShort, moonDailyMotion)

calculateYogaEndTime(t) ==
    IF SiderealThrows(t) THEN null
    ELSE LET sunLon  == SiderealLongitude(t, "Sun")
             moonLon == SiderealLongitude(t, "Moon")
             currentSum == normalizeAngle(sunLon + moonLon)
             currentYogaNum == ShortFloor(currentSum, MoonShort, yoga_arc)
             nextYogaStart == (currentYogaNum + 1) * yoga_arc
             longitudeDiff == normalizeAngle(nextYogaStart - currentSum)
         IN  RateEndTime(t, longitudeDiff, MoonShort, moonDailyMotion + sunDailyMotion)

calculateKaranaEndTime(t) ==
    IF SiderealThrows(t) THEN null
    ELSE LET sunLon  == SiderealLongitude(t, "Sun")
             moonLon == SiderealLongitude(t, "Moon")
             currentElongation == normalizeAngle(moonLon - sunLon)
             currentKaranaInCycle == ShortFloor(currentElongation, MoonShort, karana_arc)
             nextKaranaStart == (currentKaranaInCycle + 1) * karana_arc
             longitudeDiff == normalizeAngle(nextKaranaStart - currentElongation)
         IN  RateEndTime(t, longitudeDiff, MoonShort, moonDailyMotion - sunDailyMotion)

\* the mansion number the sweep computes at an instant
SweepNakshatraNum(t) ==
    ShortFloor(SiderealLongitude(t, "Moon"), MoonShort, nakshatra_size) + 1

\* the sweep of calculateNakshatraEndTime: hour 0 .. SweepHours - 1 from the
\* start of the UTC day of the Date; each iteration asks the oracle for the
\* test time and for the Date, and stops at the first test time after the
\* Date with another mansion number; any error makes the result null
calculateNakshatraEndTime(t) ==
    LET startOfDayUTC == MathFloorDiv(t, MsPerDay) * MsPerDay
        testTime(hour) == startOfDayUTC + hour * MsPerHour
        throws(hour)   == SiderealThrows(testTime(hour)) \/ SiderealThrows(t)
        found(hour)    == /\ SweepNakshatraNum(testTime(hour)) # SweepNakshatraNum(t)
                          /\ testTime(hour) > t
        stops == { hour \in 0 .. (SweepHours - 1) : throws(hour) \/ found(hour) }
    IN  IF stops = {} THEN null
        ELSE LET first == CHOOSE hour \in stops : \A other \in stops : hour <= other
             IN  IF throws(first) THEN null ELSE Some(testTime(first))

\* the four padas as the quarters of the time from the input Date to the
\* end time
calculateNakshatraPada_fromInputDate(t) ==
    LET nakshatraEndTime == calculateNakshatraEndTime(t)
    IN  IF nakshatraEndTime = null
        THEN [ pada1 |-> Window(Some(t), Some(t)), pada2 |-> Window(Some(t), Some(t)),
               pada3 |-> Window(Some(t), Some(t)), pada4 |-> Window(Some(t), Some(t)) ]
        ELSE LET e  == getTime(nakshatraEndTime)
                 p1 == NewDate(t, e - t, 4)
                 p2 == NewDate(p1, e - t, 4)
                 p3 == NewDate(p2, e - t, 4)
             IN  [ pada1 |-> Window(Some(t), Some(p1)),
                   pada2 |-> Window(Some(p1), Some(p2)),
                   pada3 |-> Window(Some(p2), Some(p3)),
                   pada4 |-> Window(Some(p3), nakshatraEndTime) ]

calculateNakshatraPada(t) ==
    LET nakshatraEndTime == calculateNakshatraEndTime(t)
    IN  IF nakshatraEndTime = null
        THEN [ pada1 |-> Window(Some(t), Some(t)), pada2 |-> Window(Some(t), Some(t)),
               pada3 |-> Window(Some(t), Some(t)), pada4 |-> Window(Some(t), Some(t)) ]
        ELSE LET e     == getTime(nakshatraEndTime)
                 start == e - MsPerDay
                 p1    == NewDate(start, e - start, 4)
                 p2    == NewDate(p1, e - start, 4)
                 p3    == NewDate(p2, e - start, 4)
             IN  [ pada1 |-> Window(Some(start), Some(p1)),
                   pada2 |-> Window(Some(p1), Some(p2)),
                   pada3 |-> Window(Some(p2), Some(p3)),
                   pada4 |-> Window(Some(p3), nakshatraEndTime) ]

---------------------------------------------------------------------------
(* Day fields *)

calculateMadhyahna(rise, set) ==
    IF rise = null \/ set = null THEN null
    ELSE Some(NewDate(0, getTime(rise) + getTime(set), 2))

Duration(ms) ==
    [ hours   |-> MathFloorDiv(ms, MsPerHour),
      minutes |-> MathFloorDiv(JsRem(ms, MsPerHour), MsPerMinute),
      seconds |-> MathFloorDiv(JsRem(JsRem(ms, MsPerHour), MsPerMinute), 1000) ]

calculateDinamana(rise, set) ==
    IF rise = null \/ set = null THEN [hours |-> 0, minutes |-> 0, seconds |-> 0]
    ELSE Duration(getTime(set) - getTime(rise))

calculateRatrimana(rise, set) ==
    IF rise = null \/ set = null THEN [hours |-> 0, minutes |-> 0, seconds |-> 0]
    ELSE Duration(MsPerDay - (getTime(set) - getTime(rise)))

varaNames ==
    << "Sunday", "Monday", "Tuesday", "Wednesday", "Thursday", "Friday", "Saturday" >>

\* getVara reading the weekday off the copy of the Date shifted to the
\* time zone of the location
getVara_ofLocalizedDate(t) ==
    LET day == getDay(toTimeZone(t, location.timezone))
    IN  [vara |-> day, name |-> varaNames[day + 1]]

\* getVara keeping the Date of the previous call on the object
getVara_ofPreviousCall(t) ==
    LET day == IF calls = << >> THEN getDay(t) ELSE getDay(calls[Len(calls)].date)
    IN  [vara |-> day, name |-> varaNames[day + 1]]

\* getVara(date): varaNumber = date.getDay()
getVara(t) == [vara |-> getDay(t), name |-> varaNames[getDay(t) + 1]]

---------------------------------------------------------------------------
(* PanchangEngine: Panchang.calculatePanchang *)

Abs(x) == IF x >= 0 THEN x ELSE 0 - x

\* the calculation moment with a sunrise exactly 24 h from the input Date
\* still taken
CalculationMoment_within24hInclusive ==
    LET sunriseTime == RiseSetCall(oracle.sunrise)
    IN  IF /\ ~ sunriseTime.threw
           /\ sunriseTime.value # null
           /\ Abs(getTime(sunriseTime.value) - date) <= MsPerDay
        THEN getTime(sunriseTime.value)
        ELSE date

\* the moment the elements are computed for: the sunrise of the first
\* calculateSunrise call (in its try block) when it is less than 24 h from
\* the input Date, else the input Date
CalculationMoment ==
    LET sunriseTime == RiseSetCall(oracle.sunrise)
    IN  IF /\ ~ sunriseTime.threw
           /\ sunriseTime.value # null
           /\ Abs(getTime(sunriseTime.value) - date) < MsPerDay
        THEN getTime(sunriseTime.value)
        ELSE date

\* whether a call for the Sun / Moon position at the calculation moment
\* raises an error (the ayanamsa is asked for only when useSidereal)
BaselineThrows ==
    \/ PositionThrows(CalculationMoment)
    \/ useSidereal /\ AyanamsaThrows(CalculationMoment)

\* sunPosition.longitude and moonPosition.longitude
BaselineLongitude(body) ==
    IF useSidereal
    THEN SiderealLongitude(CalculationMoment, body)
    ELSE TropicalLongitude(CalculationMoment, body)

\* the muhurat field of the record: every bound through adjust
AdjustWindow(w) == Window(adjust(w.start), adjust(w.end))

AdjustMuhurat(m) ==
    [ abhijita   |-> AdjustWindow(m.abhijita),
      amritKalam |-> [i \in DOMAIN m.amritKalam |-> AdjustWindow(m.amritKalam[i])],
      sarvarthaSiddhiYoga |-> m.sarvarthaSiddhiYoga,
      amritSiddhiYoga |-> AdjustWindow(m.amritSiddhiYoga),
      vijaya     |-> AdjustWindow(m.vijaya),
      godhuli    |-> AdjustWindow(m.godhuli),
      sayahnaSandhya |-> AdjustWindow(m.sayahnaSandhya),
      nishita    |-> AdjustWindow(m.nishita),
      brahma     |-> AdjustWindow(m.brahma),
      pratahSandhya |-> AdjustWindow(m.pratahSandhya) ]

AdjustKalam(k) ==
    [ rahu      |-> AdjustWindow(k.rahu),
      gulikai   |-> AdjustWindow(k.gulikai),
      yamaganda |-> AdjustWindow(k.yamaganda) ]

\* calculatePanchang(date, location, useSidereal).  The fields moonPhase,
\* lunarMonth, paksha, samvata, sunsign, moonsign, suryaNakshatra, ritu and
\* ayana of the record are left out: they are table look-ups on the two
\* longitudes and the year.
calculatePanchang ==
    LET sunLon  == BaselineLongitude("Sun")
        moonLon == BaselineLongitude("Moon")
        sunriseTime  == RiseSetCall(oracle.sunrise)
        sunsetTime   == RiseSetCall(oracle.sunset)
        moonriseTime == RiseSetCall(oracle.moonrise)
        moonsetTime  == RiseSetCall(oracle.moonset)
    IN  IF BaselineThrows THEN Thrown
        ELSE IF sunriseTime.threw \/ sunsetTime.threw THEN Thrown
        ELSE IF moonriseTime.threw \/ moonsetTime.threw THEN Thrown
        ELSE Returned(
          [ date      |-> Some(toTimeZone(date, location.timezone)),
            tithi     |-> [ element |-> calculateTithi(sunLon, moonLon),
                            endTime |-> adjust(calculateTithiEndTime(date)) ],
            nakshatra |-> [ element |-> ephemeris_calculateNakshatra(moonLon),
                            endTime |-> adjust(calculateNakshatraEndTime(date)) ],
            yoga      |-> [ element |-> calculateYoga(sunLon, moonLon),
                            endTime |-> adjust(calculateYogaEndTime(date)) ],
            karana    |-> [ element |-> calculateKarana(sunLon, moonLon),
                            endTime |-> adjust(calculateKaranaEndTime(date)) ],
            vara      |-> getVara(date),
            sunrise   |-> adjust(sunriseTime.value),
            sunset    |-> adjust(sunsetTime.value),
            moonrise  |-> adjust(moonriseTime.value),
            moonset   |-> adjust(moonsetTime.value),
            nakshatraPada |-> calculateNakshatraPada(date),
            madhyahna |-> adjust(calculateMadhyahna(sunriseTime.value, sunsetTime.value)),
            dinamana  |-> calculateDinamana(sunriseTime.value, sunsetTime.value),
            ratrimana |-> calculateRatrimana(sunriseTime.value, sunsetTime.value),
            muhurat   |-> AdjustMuhurat(calculateMuhurat(sunriseTime.value, sunsetTime.value)),
            kalam     |-> AdjustKalam(calculateKalam(getDay(date), sunriseTime.value,
                                                     sunsetTime.value)) ])

---------------------------------------------------------------------------
(* calculatePanchang called once for every input and oracle *)

\* the input Dates are 09:30 UTC of the days 1 .. CallDays of the epoch
CallDays == 2

CallDates == { d * MsPerDay + 9 * MsPerHour + 30 * MsPerMinute : d \in 1 .. CallDays }

Locations == { [timezone |-> "UTC"], [timezone |-> "Asia/Kolkata"] }

DateResponse(t) == [kind |-> "date", time |-> t]

NullResponse == [kind |-> "null", time |-> 0]

ThrowResponse == [kind |-> "throw", time |-> 0]

\* sunrise: an error, none, 06:00 of the day of the Date (plus 1 ms), 11:00
\* (after the Date), or exactly 24 h after the Date
SunriseResponses(d) ==
    { ThrowResponse, NullResponse,
      DateResponse(d - 210 * MsPerMinute + 1), DateResponse(d + 90 * MsPerMinute),
      DateResponse(d + MsPerDay) }

\* sunset: an error, none, or 18:00 of the day of the Date (plus 7 ms)
SunsetResponses(d) ==
    { ThrowResponse, NullResponse, DateResponse(d + 510 * MsPerMinute + 7) }

\* moonrise and moonset: both dates, or one of them none or an error
MoonResponses(d) ==
    LET up   == DateResponse(d + 2 * MsPerHour)
        down == DateResponse(d + 13 * MsPerHour)
    IN  { <<up, down>>, <<NullResponse, down>>, <<up, NullResponse>>,
          <<ThrowResponse, down>>, <<up, ThrowResponse>> }

\* <<sun0, moon0, moonRate>>: elongations in the first, the 15th, the 30th
\* tithi, and a Moon 8 units (2/3 deg) faster each hour or standing still
Longitudes ==
    { <<120, 1200, 8>>, <<120, 2148, 8>>, <<2148, 2144, 8>>, <<120, 1200, 0>> }

Failures ==
    { <<"never", "position">>, <<"atInputDate", "position">>,
      <<"exceptInputDate", "position">>, <<"fromNextDay", "position">>,
      <<"always", "position">>, <<"atInputDate", "ayanamsa">>,
      <<"exceptInputDate", "ayanamsa">>, <<"always", "ayanamsa">> }

Oracles(d) ==
    { [ sunrise |-> sr, sunset |-> ss, moonrise |-> mm[1], moonset |-> mm[2],
        sun0 |-> lon[1], moon0 |-> lon[2], moonRate |-> lon[3], moonShort |-> 0,
        ayanamsa |-> 24 * 12,
        failing |-> f[1], failingCall |-> f[2] ] :
      sr \in SunriseResponses(d), ss \in SunsetResponses(d), mm \in MoonResponses(d),
      lon \in Longitudes, f \in Failures }

Init ==
    /\ date \in CallDates
    /\ hostOffset \in { 0, 330 * MsPerMinute }
    /\ location \in Locations
    /\ useSidereal \in BOOLEAN
    /\ oracle \in Oracles(date)
    /\ ppc = "call"
    /\ result = [none |-> TRUE]
    /\ calls = << >>
    /\ calculator = NoCalculator
    /\ sunrise = null
    /\ sunset = null
    /\ wpc = "idle"
    /\ windows = [none |-> TRUE]
    /\ IdleElements

CallCalculatePanchang ==
    /\ ppc = "call"
    /\ ppc' = "done"
    /\ result' = calculatePanchang
    /\ calls' = Append(calls, [ date |-> date, location |-> location,
                                useSidereal |-> useSidereal, result |-> result' ])
    /\ UNCHANGED <<location, useSidereal, oracle, calculator>>
    /\ UNCHANGED <<evars, wvars>>

Next == CallCalculatePanchang

Spec == Init /\ [][Next]_vars

---------------------------------------------------------------------------
(* Claims about calculatePanchang (Spec) *)

PanchangReturned == ppc = "done" /\ ~ result.threw

MuhuratWindowNames ==
    { "abhijita", "amritSiddhiYoga", "vijaya", "godhuli", "sayahnaSandhya",
      "nishita", "brahma", "pratahSandhya" }

\* C9: when the oracle returns no sunrise or no sunset, every kalam window
\* and every muhurat window of the returned record has start = null and
\* end = null, and amritKalam is the empty list.
C9_NoSunNoWindows ==
    (PanchangReturned /\ (oracle.sunrise.kind = "null" \/ oracle.sunset.kind = "null")) =>
        /\ \A k \in KalamNames : result.value.kalam[k] = Window(null, null)
        /\ \A m \in MuhuratWindowNames : result.value.muhurat[m] = Window(null, null)
        /\ result.value.muhurat.amritKalam = << >>

\* a record has been returned for an oracle with a sunrise and no sunset:
\* its sunrise is a Date and its rahu window has no bounds
C9_Witness ==
    /\ PanchangReturned
    /\ oracle.sunrise.kind = "date"
    /\ oracle.sunset.kind = "null"
    /\ result.value.sunrise # null
    /\ result.value.kalam.rahu = Window(null, null)

\* whether the oracle raises an error for a position or ayanamsa that the
\* end-time estimators of tithi, yoga and karana ask for
EndTimeOracleFails == SiderealThrows(date)

ResponseOf(field) ==
    CASE field = "sunrise"  -> oracle.sunrise
      [] field = "sunset"   -> oracle.sunset
      [] field = "moonrise" -> oracle.moonrise
      [] field = "moonset"  -> oracle.moonset

\* C10: calculatePanchang fails as a whole only when the oracle cannot give
\* the baseline position (or ayanamsa) for the calculation moment; an error
\* or no answer for sunrise, sunset, moonrise or moonset, or an error for a
\* position asked for during end-time estimation, leaves the call successful
\* with that sub-field null.
C10_FailsOnlyOnBaseline ==
    ppc = "done" =>
        /\ result.threw => BaselineThrows
        /\ ~ BaselineThrows =>
              /\ ~ result.threw
              /\ \A f \in {"sunrise", "sunset", "moonrise", "moonset"} :
                    ResponseOf(f).kind # "date" => result.value[f] = null
              /\ EndTimeOracleFails =>
                    /\ result.value.tithi.endTime = null
                    /\ result.value.nakshatra.endTime = null
                    /\ result.value.yoga.endTime = null
                    /\ result.value.karana.endTime = null

---------------------------------------------------------------------------
(* The end-time estimators called on their own; the sweep of               *)
(* calculateNakshatraEndTime is taken one iteration at a time.             *)

\* the input Dates are 00:00, 09:30 and 23:30 UTC of the days
\* 1 .. EstimatorDays of the epoch
EstimatorDays == 2

EstimatorDates ==
    { d * MsPerDay + m * MsPerMinute : d \in 1 .. EstimatorDays, m \in {0, 570, 1410} }

\* the Moon starts at every eighth of a mansion up to MoonSteps eighths
MoonSteps == 8

\* moonRate: a Moon standing still, one of 8 deg a day (a mansion in 40 h)
\* and one of 16 deg a day (a mansion in 20 h); every longitude is a
\* multiple of Ulp, or a millionth of a unit short of one
EstimatorOracles ==
    { [ sunrise |-> NullResponse, sunset |-> NullResponse,
        moonrise |-> NullResponse, moonset |-> NullResponse,
        sun0 |-> s0, moon0 |-> 288 + 20 * k, moonRate |-> rate, moonShort |-> short,
        ayanamsa |-> 24 * 12,
        failing |-> f[1], failingCall |-> f[2] ] :
      s0 \in {120, 688}, k \in 0 .. MoonSteps, rate \in {0, 4, 8},
      short \in {0, 1}, f \in Failures }

InitEstimators ==
    /\ date \in EstimatorDates
    /\ oracle \in EstimatorOracles
    /\ location = [timezone |-> "UTC"]
    /\ useSidereal = TRUE
    /\ ppc = "idle"
    /\ result = [none |-> TRUE]
    /\ calls = << >>
    /\ calculator = NoCalculator
    /\ sunLongitude = 0
    /\ moonLongitude = 0
    /\ epc = "input"
    /\ ret = [none |-> TRUE]
    /\ hostOffset = 0
    /\ sunrise = null
    /\ sunset = null
    /\ wpc = "idle"
    /\ windows = [none |-> TRUE]

CallTithiEndTime ==
    /\ epc = "input"
    /\ epc' = "tithiEndTime"
    /\ ret' = [endTime |-> calculateTithiEndTime(date)]
    /\ UNCHANGED <<sunLongitude, moonLongitude, wvars, pvars>>

CallYogaEndTime ==
    /\ epc = "input"
    /\ epc' = "yogaEndTime"
    /\ ret' = [endTime |-> calculateYogaEndTime(date)]
    /\ UNCHANGED <<sunLongitude, moonLongitude, wvars, pvars>>

CallKaranaEndTime ==
    /\ epc = "input"
    /\ epc' = "karanaEndTime"
    /\ ret' = [endTime |-> calculateKaranaEndTime(date)]
    /\ UNCHANGED <<sunLongitude, moonLongitude, wvars, pvars>>

\* startOfDayUTC.getTime() + hour * 60 * 60 * 1000
SweepTestTime(hour) == MathFloorDiv(date, MsPerDay) * MsPerDay + hour * MsPerHour

\* the loop condition with no bound on the hour
SweepContinues_unbounded(hour) == TRUE

\* for (let hour = 0; hour < 48; hour++)
SweepContinues(hour) == hour < SweepHours

\* the test of the loop without the comparison of the test time and the Date
SweepTransition_anySample(testTime) ==
    SweepNakshatraNum(testTime) # SweepNakshatraNum(date)

\* nakshatraNum !== currentNakshatraNum && testTime > date
SweepTransition(testTime) ==
    /\ SweepNakshatraNum(testTime) # SweepNakshatraNum(date)
    /\ testTime > date

\* calculateNakshatraEndTime entered: let bestEndTime = null; hour = 0
EnterSweep ==
    /\ epc = "input"
    /\ epc' = "sweep"
    /\ ret' = [hour |-> 0, bestEndTime |-> null]
    /\ UNCHANGED <<sunLongitude, moonLongitude, wvars, pvars>>

\* one iteration of the loop: an error of the oracle goes to the catch block
\* (return null), another mansion number at a test time after the Date
\* breaks out of the loop (return bestEndTime), else hour++
SweepIteration ==
    /\ epc = "sweep"
    /\ SweepContinues(ret.hour)
    /\ LET testTime == SweepTestTime(ret.hour)
       IN  IF SiderealThrows(testTime) \/ SiderealThrows(date)
           THEN /\ epc' = "nakshatraEndTime"
                /\ ret' = [endTime |-> null, iterations |-> ret.hour + 1]
           ELSE IF SweepTransition(testTime)
           THEN /\ epc' = "nakshatraEndTime"
                /\ ret' = [endTime |-> Some(testTime), iterations |-> ret.hour + 1]
           ELSE /\ epc' = epc
                /\ ret' = [ret EXCEPT !.hour = ret.hour + 1]
    /\ UNCHANGED <<sunLongitude, moonLongitude, wvars, pvars>>

\* the loop left at its bound: return bestEndTime
ExitSweep ==
    /\ epc = "sweep"
    /\ ~ SweepContinues(ret.hour)
    /\ epc' = "nakshatraEndTime"
    /\ ret' = [endTime |-> ret.bestEndTime, iterations |-> ret.hour]
    /\ UNCHANGED <<sunLongitude, moonLongitude, wvars, pvars>>

NextEstimators ==
    \/ CallTithiEndTime
    \/ CallYogaEndTime
    \/ CallKaranaEndTime
    \/ EnterSweep
    \/ SweepIteration
    \/ ExitSweep

SpecEstimators == InitEstimators /\ [][NextEstimators]_vars

\* the oracles under which the termination of the methods is checked: the
\* Moon at the start of a mansion or an eighth before its end, every rate,
\* every failure of calculatePosition
RunOracles ==
    { o \in EstimatorOracles :
        /\ o.sun0 = 120
        /\ o.moon0 \in {288, 288 + 140}
        /\ o.moonShort = 0
        /\ o.failingCall = "position" }

InitEstimatorsRun ==
    /\ InitEstimators
    /\ oracle \in RunOracles

\* a method that has been entered runs on until it returns
SpecEstimatorsRun ==
    InitEstimatorsRun /\ [][NextEstimators]_vars /\ WF_vars(NextEstimators)

---------------------------------------------------------------------------
(* Claims about localization (Spec) *)

\* C11: localizing an instant into the location's timezone does not change
\* the absolute instant: the date field of the record and its sunrise,
\* sunset, moonrise and moonset denote the same epoch time as the input Date
\* and the times the oracle returned.
C11_LocalizationKeepsInstant ==
    PanchangReturned =>
        /\ getTime(result.value.date) = date
        /\ \A f \in {"sunrise", "sunset", "moonrise", "moonset"} :
              ResponseOf(f).kind = "date" =>
                  result.value[f] = Some(ResponseOf(f).time)

---------------------------------------------------------------------------
(* Claims about the end-time estimators (SpecEstimators) *)

RateEstimators == {"tithiEndTime", "yogaEndTime", "karanaEndTime"}

\* the hours of the sweep whose iteration has been run when it returned
HoursRun == 0 .. (ret.iterations - 1)

\* C12: each of the four end-time estimators returns null (and raises no
\* error) whenever an oracle call it makes fails: a call for the Date in the
\* rate-based estimators, and a call for the Date or for a test time of an
\* iteration that was run in the sweep, a failure in its middle included.
C12_EndTimeNullOnOracleFailure ==
    /\ (epc \in RateEstimators /\ OracleFailsAt(date)) => ret.endTime = null
    /\ (/\ epc = "nakshatraEndTime"
        /\ \E h \in HoursRun : OracleFailsAt(SweepTestTime(h)) \/ OracleFailsAt(date))
            => ret.endTime = null

\* the sweep has returned null after the oracle failed in its 25th iteration
C12_Witness ==
    /\ epc = "nakshatraEndTime"
    /\ oracle.failing = "fromNextDay"
    /\ ret.iterations = 25
    /\ ret.endTime = null

\* the mansion index at an instant: floor(longitude / arc) + 1 of the
\* sidereal Moon longitude
MansionIndexAt(t) ==
    LET units == SiderealLongitude(t, "Moon")
    IN  IF MoonShort = 0 THEN (units \div nakshatra_size) + 1
        ELSE (((units + FullCircle - 1) % FullCircle) \div nakshatra_size) + 1

\* the hours of the sweep whose sample is strictly after the Date and has
\* another mansion index than the Date
ChangedAfter ==
    { h \in 0 .. (SweepHours - 1) :
        /\ SweepTestTime(h) > date
        /\ MansionIndexAt(SweepTestTime(h)) # MansionIndexAt(date) }

\* C13: with an oracle that answers every call, calculateNakshatraEndTime
\* returns the earliest sample, among the samples strictly after the Date,
\* whose mansion index differs from that at the Date, and null when no such
\* sample exists; it is the value calculatePanchang attaches to the record.
C13_EarliestChangedSample ==
    epc = "nakshatraEndTime" =>
        /\ oracle.failing = "never" =>
              /\ ChangedAfter = {} => ret.endTime = null
              /\ ChangedAfter # {} =>
                    /\ ret.endTime # null
                    /\ \E h \in ChangedAfter :
                          /\ getTime(ret.endTime) = SweepTestTime(h)
                          /\ \A other \in ChangedAfter : h <= other
        /\ ret.endTime = calculateNakshatraEndTime(date)

\* an end time has been returned although a sample not after the Date had
\* another mansion index already
C13_Witness ==
    /\ epc = "nakshatraEndTime"
    /\ oracle.failing = "never"
    /\ ret.endTime # null
    /\ \E h \in 0 .. (SweepHours - 1) :
          /\ SweepTestTime(h) <= date
          /\ MansionIndexAt(SweepTestTime(h)) # MansionIndexAt(date)

\* the instants one to 48 whole hours after the Date
HoursAfterDate == { date + k * MsPerHour : k \in 1 .. SweepHours }

\* C14: the sweep samples forward from the Date in hourly steps for 48
\* steps: with an oracle that answers every call, an end time returned is a
\* whole number of hours (1 .. 48) after the Date, and whenever the mansion
\* index some whole number of hours (1 .. 48) after the Date differs from the
\* index at the Date, the end time returned is not null.
C14_SweepFromInstant ==
    (epc = "nakshatraEndTime" /\ oracle.failing = "never") =>
        /\ ret.endTime # null => getTime(ret.endTime) \in HoursAfterDate
        /\ (\E t \in HoursAfterDate : MansionIndexAt(t) # MansionIndexAt(date))
              => ret.endTime # null

\* C15: the sweep terminates after at most 48 iterations for every oracle
\* (one whose mansion index never changes included): the hour never passes
\* 48, and a sweep that has been entered returns, an instant or null, with
\* at most 48 iterations run.
C15_SweepTerminates ==
    /\ [](epc = "sweep" => ret.hour \in 0 .. SweepHours)
    /\ [](epc = "nakshatraEndTime" => ret.iterations \in 1 .. SweepHours)
    /\ (epc = "sweep") ~> (epc = "nakshatraEndTime")

\* the sweep has run all its 48 iterations on a Moon that stands still and
\* returned null
C15_Witness ==
    /\ epc = "nakshatraEndTime"
    /\ oracle.moonRate = 0
    /\ oracle.failing = "never"
    /\ ret.iterations = SweepHours
    /\ ret.endTime = null

\* the elongation and the sum of the sidereal longitudes at the Date
ElongationAtDate ==
    Normalized(SiderealLongitude(date, "Moon") - SiderealLongitude(date, "Sun"))

SumAtDate ==
    Normalized(SiderealLongitude(date, "Sun") + SiderealLongitude(date, "Moon"))

\* normalize((currentCycleIndex + 1) * arcWidth - currentQuantity)
GapToNextArc(quantity, arc) ==
    IF MoonShort > 0 /\ quantity % arc = 0 THEN 0
    ELSE Normalized(((quantity \div arc) + 1) * arc - quantity)

TithiEndTimeAtRate(rate) ==
    RateEndTime(date, GapToNextArc(ElongationAtDate, tithi_length), MoonShort, rate)

KaranaEndTimeAtRate(rate) ==
    RateEndTime(date, GapToNextArc(ElongationAtDate, karana_arc), MoonShort, rate)

YogaEndTimeAtRate(rate) ==
    RateEndTime(date, GapToNextArc(SumAtDate, yoga_arc), MoonShort, rate)

\* C16: each rate-based end time is the Date plus gap / rate days, the gap
\* that to the next multiple of the arc; the rate is Moon minus Sun
\* (13.2 - 0.985 deg a day) for tithi (arc 12) and karana (arc 6), on the
\* elongation, and Moon plus Sun (13.2 + 0.985) for yoga (arc 360/27), on
\* the sum.
C16_RateEndTimes ==
    ~ OracleFailsAt(date) =>
        /\ epc = "tithiEndTime" =>
              ret.endTime = TithiEndTimeAtRate(moonDailyMotion - sunDailyMotion)
        /\ epc = "karanaEndTime" =>
              ret.endTime = KaranaEndTimeAtRate(moonDailyMotion - sunDailyMotion)
        /\ epc = "yogaEndTime" =>
              ret.endTime = YogaEndTimeAtRate(moonDailyMotion + sunDailyMotion)

---------------------------------------------------------------------------
(* calculatePanchang called several times in one process *)

\* the number of calls of a behaviour
MaxCalls == 3

\* 20:00 UTC of day 1 (a Friday; 01:30 on Saturday in Asia/Kolkata) and
\* 02:00 UTC of day 2 (a Saturday; still Friday 8 hours west of Greenwich)
SessionDates == { MsPerDay + 20 * MsPerHour, 2 * MsPerDay + 2 * MsPerHour }

\* the oracle answers every call alike: sunrise at 23:30 UTC of day 0
\* (05:00 of day 1 in Asia/Kolkata) and sunset at 12:30 UTC (plus 5 ms) of
\* day 1, or no sunrise; positions always, or the ayanamsa never
SessionOracles ==
    { [ sunrise |-> sr, sunset |-> DateResponse(MsPerDay + 750 * MsPerMinute + 5),
        moonrise |-> NullResponse, moonset |-> NullResponse,
        sun0 |-> 120, moon0 |-> 1200, moonRate |-> 8, moonShort |-> 0,
        ayanamsa |-> 24 * 12,
        failing |-> f, failingCall |-> "ayanamsa" ] :
      sr \in { DateResponse(MsPerDay - 30 * MsPerMinute), NullResponse },
      f \in { "never", "always" } }

InitSession ==
    /\ date \in SessionDates
    /\ location \in Locations
    /\ useSidereal \in BOOLEAN
    /\ hostOffset \in HostOffsets
    /\ oracle \in SessionOracles
    /\ ppc = "call"
    /\ result = [none |-> TRUE]
    /\ calls = << >>
    /\ calculator = NoCalculator
    /\ sunrise = null
    /\ sunset = null
    /\ wpc = "idle"
    /\ windows = [none |-> TRUE]
    /\ IdleElements

\* the caller passes the arguments of its next call
NextCall ==
    /\ ppc = "done"
    /\ Len(calls) < MaxCalls
    /\ ppc' = "call"
    /\ date' \in SessionDates
    /\ location' \in Locations
    /\ useSidereal' \in BOOLEAN
    /\ UNCHANGED <<oracle, result, calls, calculator>>
    /\ UNCHANGED <<hostOffset, sunrise, sunset, wpc, windows>>
    /\ UNCHANGED evars

NextSession == CallCalculatePanchang \/ NextCall

SpecSession == InitSession /\ [][NextSession]_vars

---------------------------------------------------------------------------
(* Claims about the weekday and about repeated calls (SpecSession) *)

\* the weekday, in the host's time zone, of the instant t (0 = Sunday;
\* 1 January 1970 was a Thursday)
WeekdayOf(t) == (MathFloorDiv(t + hostOffset, MsPerDay) + 4) % 7

\* the three kalam windows of the record for the segments that the tables
\* give for the weekday day, between the oracle's sunrise and sunset
KalamOfWeekday(day) ==
    LET rise      == oracle.sunrise.time
        dayLength == oracle.sunset.time - oracle.sunrise.time
        Segment(period) ==
            LET start == NewDate(rise, period * dayLength, 8)
            IN  Window(adjust(Some(start)), adjust(Some(NewDate(start, dayLength, 8))))
    IN  [ rahu      |-> Segment(rahuKaalPeriod[day + 1]),
          gulikai   |-> Segment(gulikaiKaalPeriod[day + 1]),
          yamaganda |-> Segment(yamagandaKaalPeriod[day + 1]) ]

\* C17: the weekday index reported as vara is the weekday of the input
\* Date, and the kalam windows are the segments of that same weekday: both
\* indexes come from the unmodified input Date and are equal, whatever the
\* weekday of the time-zone-shifted copy or of the calculation moment.
C17_WeekdayOfInputDate ==
    PanchangReturned =>
        /\ result.value.vara.vara = WeekdayOf(date)
        /\ result.value.vara.name = varaNames[WeekdayOf(date) + 1]
        /\ (oracle.sunrise.kind = "date" /\ oracle.sunset.kind = "date") =>
              result.value.kalam = KalamOfWeekday(WeekdayOf(date))

\* a record with kalam windows has been returned for an input Date whose
\* weekday is neither that of its time-zone-shifted copy nor that of the
\* calculation moment (the sunrise)
C17_Witness ==
    /\ PanchangReturned
    /\ oracle.sunrise.kind = "date"
    /\ CalculationMoment = oracle.sunrise.time
    /\ WeekdayOf(CalculationMoment) # WeekdayOf(date)
    /\ WeekdayOf(toTimeZone(date, location.timezone)) # WeekdayOf(date)
    /\ result.value.kalam.rahu.start # null
    /\ KalamOfWeekday(WeekdayOf(CalculationMoment)) # KalamOfWeekday(WeekdayOf(date))

\* whether the calls i and j were given the same arguments
SameArguments(i, j) ==
    /\ calls[i].date = calls[j].date
    /\ calls[i].location = calls[j].location
    /\ calls[i].useSidereal = calls[j].useSidereal

---------------------------------------------------------------------------
(* Claims about the record of one call (Spec) *)

\* the longitudes the end-time estimators read: sidereal, at the input Date
EstimatorSun == SiderealLongitude(date, "Sun")

EstimatorMoon == SiderealLongitude(date, "Moon")

\* C19: in a returned record, an end time that is present belongs to the
\* element reported with it: the element at the instant the estimator
\* extrapolates from (the input Date) is the reported element, for tithi,
\* nakshatra, yoga and karana.
C19_EndTimeOfReportedElement ==
    PanchangReturned =>
        /\ result.value.tithi.endTime # null =>
              LET atDate == calculateTithi(EstimatorSun, EstimatorMoon)
              IN  /\ result.value.tithi.element.tithi = atDate.tithi
                  /\ result.value.tithi.element.isWaxing = atDate.isWaxing
        /\ result.value.nakshatra.endTime # null =>
              result.value.nakshatra.element.nakshatra =
                  ephemeris_calculateNakshatra(EstimatorMoon).nakshatra
        /\ result.value.yoga.endTime # null =>
              result.value.yoga.element.yoga =
                  calculateYoga(EstimatorSun, EstimatorMoon).yoga
        /\ result.value.karana.endTime # null =>
              result.value.karana.element.karana =
                  calculateKarana(EstimatorSun, EstimatorMoon).karana

PadaNames == { "pada1", "pada2", "pada3", "pada4" }

\* the Dates of the oracle's sunrise and sunset, as calculatePanchang
\* receives them
RiseValue == RiseSetCall(oracle.sunrise).value

SetValue == RiseSetCall(oracle.sunset).value

\* C20: every Date of a returned record is the localization (adjust) of the
\* Date computed for it: date, the four end times, sunrise, sunset,
\* moonrise, moonset, madhyahna, every kalam and muhurat window bound and
\* every nakshatraPada window bound.
C20_EveryDateLocalized ==
    PanchangReturned =>
        /\ result.value.date = adjust(Some(date))
        /\ result.value.tithi.endTime = adjust(calculateTithiEndTime(date))
        /\ result.value.nakshatra.endTime = adjust(calculateNakshatraEndTime(date))
        /\ result.value.yoga.endTime = adjust(calculateYogaEndTime(date))
        /\ result.value.karana.endTime = adjust(calculateKaranaEndTime(date))
        /\ \A f \in {"sunrise", "sunset", "moonrise", "moonset"} :
              result.value[f] = adjust(RiseSetCall(ResponseOf(f)).value)
        /\ result.value.madhyahna = adjust(calculateMadhyahna(RiseValue, SetValue))
        /\ \A k \in KalamNames :
              LET raw == calculateKalam(getDay(date), RiseValue, SetValue)[k]
              IN  result.value.kalam[k] = Window(adjust(raw.start), adjust(raw.end))
        /\ \A w \in MuhuratWindowNames :
              LET raw == calculateMuhurat(RiseValue, SetValue)[w]
              IN  result.value.muhurat[w] = Window(adjust(raw.start), adjust(raw.end))
        /\ \A p \in PadaNames :
              LET raw == calculateNakshatraPada(date)[p]
              IN  result.value.nakshatraPada[p] = Window(adjust(raw.start), adjust(raw.end))

---------------------------------------------------------------------------
(* More claims about the window derivation (SpecWindows) *)

MuhuratReturned == wpc = "muhurat" /\ sunrise # null /\ sunset # null

NightLength == MsPerDay - DayLength

\* whether the Date bound is exactly base + count * length / 15
ExactBound(bound, base, count, length) ==
    15 * (getTime(bound) - base) = count * length

\* whether the Date bound is base + count * length / 15 with the fraction of
\* a millisecond dropped (time values are positive)
ClippedBound(bound, base, count, length) ==
    /\ 15 * (getTime(bound) - base) <= count * length
    /\ count * length < 15 * (getTime(bound) - base + 1)

\* the two windows at fixed distances from the sunset
SunsetWindows ==
    /\ windows.godhuli = Window(Some(getTime(sunset) - 24 * MsPerMinute),
                                Some(getTime(sunset) + 24 * MsPerMinute))
    /\ windows.sayahnaSandhya = Window(Some(getTime(sunset) - 12 * MsPerMinute),
                                       Some(getTime(sunset) + 12 * MsPerMinute))

---------------------------------------------------------------------------
(* More claims about the record of one call (Spec) *)

\* whether a field of the record holds no value (null)
Absent(v) == DOMAIN v = {}

\* C22: when the oracle returns no sunrise or no sunset, the fields of the
\* record derived from them are absent: madhyahna, dinamana, ratrimana and
\* the bounds of every kalam and muhurat window; none is a made-up value
\* such as a zero duration.
C22_NoSunDerivedAbsent ==
    (PanchangReturned /\ (RiseValue = null \/ SetValue = null)) =>
        /\ Absent(result.value.madhyahna)
        /\ Absent(result.value.dinamana)
        /\ Absent(result.value.ratrimana)
        /\ \A k \in KalamNames :
              Absent(result.value.kalam[k].start) /\ Absent(result.value.kalam[k].end)
        /\ \A w \in MuhuratWindowNames :
              Absent(result.value.muhurat[w].start) /\ Absent(result.value.muhurat[w].end)

---------------------------------------------------------------------------
(* More claims about the element calculators (SpecElements) *)

\* the entries of a name table
Entries(table) == { table[i] : i \in DOMAIN table }

\* C23: for every longitude, also 360 and above and negative ones,
\* calculateYoga, calculateKarana, calculateNakshatra and calculateRashi
\* return a name of their table: the index is clamped into the table, no
\* entry outside it is read and no exception is raised.
C23_IndexWithinTable ==
    /\ epc = "yoga" => ret.name \in Entries(yoga_names)
    /\ epc = "karana" => ret.name \in Entries(karana_names)
    /\ epc = "nakshatra" => ~ ret.threw /\ ret.name \in Entries(NAKSHATRAS)
    /\ epc = "rashi" => ~ ret.threw /\ ret.name \in Entries(RASHIS)

\* whether the oracle returns a sunrise less than 24 hours before or after
\* the input Date
SunriseWithinDay ==
    /\ oracle.sunrise.kind = "date"
    /\ oracle.sunrise.time - date < MsPerDay
    /\ date - oracle.sunrise.time < MsPerDay

\* the four elements computed from the longitudes at the instant t
ElementsAt(t) ==
    LET lon(body) == IF useSidereal THEN SiderealLongitude(t, body)
                                    ELSE TropicalLongitude(t, body)
    IN  [ tithi     |-> calculateTithi(lon("Sun"), lon("Moon")),
          nakshatra |-> ephemeris_calculateNakshatra(lon("Moon")),
          yoga      |-> calculateYoga(lon("Sun"), lon("Moon")),
          karana    |-> calculateKarana(lon("Sun"), lon("Moon")) ]

ReportedElements ==
    [ tithi     |-> result.value.tithi.element,
      nakshatra |-> result.value.nakshatra.element,
      yoga      |-> result.value.yoga.element,
      karana    |-> result.value.karana.element ]

RawIndexOf(tithi) == IF tithi.isWaxing THEN tithi.tithi ELSE tithi.tithi + 15

\* C25: the karana and the tithi of a longitude pair are consistent: with
\* cycleIndex = floor(elongation / 6) the karana serial is cycleIndex + 1, in
\* 1 .. 60, in the movable and in the fixed branch, and
\* floor(cycleIndex / 2) + 1 is the raw index of the tithi.
C25_KaranaWithinTithi ==
    /\ epc = "karana" =>
          /\ ret.karana = CycleIndex + 1
          /\ ret.karana \in 1 .. 60
          /\ (CycleIndex \div 2) + 1 = tithi_number(sunLongitude, moonLongitude)
          /\ (CycleIndex \div 2) + 1 =
                 RawIndexOf(calculateTithi(sunLongitude, moonLongitude))
    /\ epc = "tithi" =>
          ((calculateKarana(sunLongitude, moonLongitude).karana - 1) \div 2) + 1
              = RawIndexOf(ret)

\* the last karana of the cycle, of the fixed branch, has been computed:
\* serial 60, in the 30th tithi
C25_Witness ==
    /\ epc = "karana"
    /\ CycleIndex = 59
    /\ ret.karana = 60
    /\ ret.nameIndex >= 7
    /\ tithi_number(sunLongitude, moonLongitude) = 30

---------------------------------------------------------------------------
(* More claims about the end-time estimators (SpecEstimators) *)

\* the time, in ms, the rate takes over a whole arc: arc / rate days with the
\* fraction of a millisecond dropped
ArcTime(arc, rate) == getTime(RateEndTime(0, arc, 0, rate))

\* the bounds of C26 on a returned end time: after the Date by a gap in
\* (0, arc] when strict, not before the Date otherwise
EndTimeWithinArc(arc, rate, strict) ==
    ret.endTime # null =>
        /\ IF strict THEN getTime(ret.endTime) > date ELSE getTime(ret.endTime) >= date
        /\ getTime(ret.endTime) <= date + ArcTime(arc, rate)

UnitBelowBoundary(quantity, arc) == GapToNextArc(quantity, arc) >= 1

---------------------------------------------------------------------------
(* The order of the window bounds (SpecWindows) *)

\* sunrise <= sunset and sunset - sunrise <= 24 h
SunUpWithinDay ==
    /\ sunrise # null
    /\ sunset # null
    /\ 0 <= DayLength
    /\ DayLength <= MsPerDay

Ordered(w) == getTime(w.start) <= getTime(w.end)

\* C27: whenever sunrise <= sunset and sunset - sunrise <= 24 h, every kalam
\* window lies inside [sunrise, sunset], for every weekday, and every kalam
\* and muhurat window has start <= end.
C27_WindowsOrderedInsideDay ==
    SunUpWithinDay =>
        /\ wpc = "kalam" =>
              \A k \in KalamNames :
                  /\ getTime(sunrise) <= getTime(windows[k].start)
                  /\ Ordered(windows[k])
                  /\ getTime(windows[k].end) <= getTime(sunset)
        /\ wpc = "muhurat" =>
              /\ \A w \in MuhuratWindowNames : Ordered(windows[w])
              /\ \A i \in DOMAIN windows.amritKalam : Ordered(windows.amritKalam[i])

\* the kalam windows have been returned for a weekday whose rahu segment
\* is the last the tables use (index 6), on a day whose length is not a
\* multiple of 8 ms
C27_Witness ==
    /\ SunUpWithinDay
    /\ wpc = "kalam"
    /\ SegmentIndex("rahu") = 6
    /\ DayLength > 0
    /\ DayLength % 8 # 0
    /\ getTime(windows.rahu.end) <= getTime(sunset)
    /\ getTime(windows.rahu.end) > getTime(windows.rahu.start)

---------------------------------------------------------------------------
(* The quick functions getPanchang and getPanchangReport (SpecLifecycle)   *)
(*                                                                         *)
(* calculator.at is the position of control: "outside" before the call,    *)
(* "try" inside the try block, "finally" inside the finally block, "left"  *)
(* once the function has returned or thrown.  own and inner are the        *)
(* Ephemeris of the PanchangCalculator and the Ephemeris of its Panchang:  *)
(* "open" from their construction, "released" once their cleanup has run.  *)

EntryPoints == { "getPanchang", "getPanchangReport" }

\* new PanchangCalculator(): new Panchang(), which constructs its own
\* Ephemeris, and new Ephemeris()
NewPanchangCalculator(fn) ==
    [ entry |-> fn, at |-> "try", own |-> "open", inner |-> "open",
      outcome |-> "none" ]

\* PanchangCalculator.calculatePanchang throws when Panchang.calculatePanchang
\* does or when its own getSpecificAyanamsa does; the errors of the planet
\* positions are caught
CalculatorThrows(panchang) == panchang.threw \/ AyanamsaThrows(date)

\* the try block is left for the finally block on the return and on the
\* throw alike
AfterTry_onReturnOnly(threw) == IF threw THEN "left" ELSE "finally"

AfterTry(threw) == "finally"

\* Ephemeris.cleanup releases the instance
EphemerisCleanup(instance) == "released"

\* Panchang.cleanup
PanchangCleanup(c) == [c EXCEPT !.inner = EphemerisCleanup(c.inner)]

\* PanchangCalculator.cleanup
cleanup(c) == PanchangCleanup([c EXCEPT !.own = EphemerisCleanup(c.own)])

InitLifecycle ==
    /\ date \in SessionDates
    /\ location \in Locations
    /\ useSidereal = TRUE
    /\ hostOffset \in HostOffsets
    /\ oracle \in SessionOracles
    /\ ppc = "call"
    /\ result = [none |-> TRUE]
    /\ calls = << >>
    /\ calculator = NoCalculator
    /\ sunrise = null
    /\ sunset = null
    /\ wpc = "idle"
    /\ windows = [none |-> TRUE]
    /\ IdleElements

\* getPanchang or getPanchangReport is entered: const calculator = new
\* PanchangCalculator()
EnterQuickFunction ==
    /\ calculator.at = "outside"
    /\ \E fn \in EntryPoints : calculator' = NewPanchangCalculator(fn)
    /\ UNCHANGED <<location, useSidereal, oracle, ppc, result, calls>>
    /\ UNCHANGED <<evars, wvars>>

\* the try block: calculator.calculatePanchang, directly or from
\* generatePanchangReport, which calls this.Panchang.calculatePanchang(
\* input.date, location, true)
CalculatorCalculatePanchang ==
    /\ calculator.at = "try"
    /\ ppc = "call"
    /\ ppc' = "done"
    /\ result' = calculatePanchang
    /\ calls' = Append(calls, [ date |-> date, location |-> location,
                                useSidereal |-> useSidereal, result |-> result' ])
    /\ LET threw == CalculatorThrows(result')
       IN  calculator' = [calculator EXCEPT
                              !.outcome = IF threw THEN "threw" ELSE "returned",
                              !.at = AfterTry(threw)]
    /\ UNCHANGED <<location, useSidereal, oracle>>
    /\ UNCHANGED <<evars, wvars>>

\* the finally block: calculator.cleanup(), then control leaves the function
RunFinally ==
    /\ calculator.at = "finally"
    /\ calculator' = [cleanup(calculator) EXCEPT !.at = "left"]
    /\ UNCHANGED <<location, useSidereal, oracle, ppc, result, calls>>
    /\ UNCHANGED <<evars, wvars>>

\* the caller passes the arguments of its next quick call
NextQuickCall ==
    /\ calculator.at = "left"
    /\ Len(calls) < MaxCalls
    /\ calculator' = NoCalculator
    /\ ppc' = "call"
    /\ date' \in SessionDates
    /\ location' \in Locations
    /\ UNCHANGED <<useSidereal, oracle, result, calls>>
    /\ UNCHANGED <<hostOffset, sunrise, sunset, wpc, windows>>
    /\ UNCHANGED evars

NextLifecycle ==
    \/ EnterQuickFunction
    \/ CalculatorCalculatePanchang
    \/ RunFinally
    \/ NextQuickCall

SpecLifecycle == InitLifecycle /\ [][NextLifecycle]_vars

\* C28: getPanchang and getPanchangReport call cleanup on the calculator
\* they create before control leaves the function, when the calculation
\* returns and when it throws, and that cleanup releases both Ephemeris
\* instances of the calculator: its own and the one inside its Panchang.
C28_CleanupOnBothPaths ==
    calculator.at = "left" =>
        /\ calculator.outcome \in { "returned", "threw" }
        /\ calculator.own = "released"
        /\ calculator.inner = "released"

\* getPanchangReport has thrown out of its try block and control has left
\* the function with both instances released
C28_Witness ==
    /\ calculator.at = "left"
    /\ calculator.entry = "getPanchangReport"
    /\ calculator.outcome = "threw"
    /\ result.threw
    /\ calculator.own = "released"
    /\ calculator.inner = "released"

---------------------------------------------------------------------------
(* The pada windows of calculateNakshatraPada (Spec) *)

\* the windows calculateNakshatraPada returned to calculatePanchang
PadaWindows == calculateNakshatraPada(date)

\* the length of a window, in ms
WindowLength(w) == getTime(w.end) - getTime(w.start)

\* C29: when the nakshatra end time E is known, pada1 .. pada4 are four
\* contiguous windows of 6 hours each that tile [E - 24 h, E] exactly;
\* when it is unknown, all four are the zero-length window at the input
\* instant.
C29_PadasTileLastDay ==
    PanchangReturned =>
        LET E == calculateNakshatraEndTime(date)
        IN  IF E # null
            THEN /\ getTime(PadaWindows.pada1.start) = getTime(E) - MsPerDay
                 /\ PadaWindows.pada2.start = PadaWindows.pada1.end
                 /\ PadaWindows.pada3.start = PadaWindows.pada2.end
                 /\ PadaWindows.pada4.start = PadaWindows.pada3.end
                 /\ PadaWindows.pada4.end = E
                 /\ \A p \in PadaNames : WindowLength(PadaWindows[p]) = 6 * MsPerHour
            ELSE \A p \in PadaNames : PadaWindows[p] = Window(Some(date), Some(date))

\* calculatePanchang has returned with a known nakshatra end time later
\* than the input Date and less than 24 hours after it, so that the first
\* pada starts before the input Date
C29_Witness ==
    /\ PanchangReturned
    /\ calculateNakshatraEndTime(date) # null
    /\ getTime(calculateNakshatraEndTime(date)) > date
    /\ getTime(PadaWindows.pada1.start) < date
    /\ WindowLength(PadaWindows.pada3) = 6 * MsPerHour

---------------------------------------------------------------------------
(* The legacy calculateYamghantKalam of src/lib/yamghantKalam.js           *)
(* (SpecLegacy)                                                            *)
(*                                                                         *)
(* date is the midnight that begins the 'yyyy-MM-dd' argument, sunrise and *)
(* sunset the instants the 'HH:mm:ss' arguments name on that date, all in  *)
(* the wall clock of the timezone argument (a zone of constant offset).    *)
(* The arguments are whole seconds, so every eighth of the duration is a   *)
(* whole number of milliseconds.                                           *)

\* the dates of a week, from Thursday 1 January 1970
LegacyDates == { d * MsPerDay : d \in 0 .. 6 }

\* the sunrise arguments, in ms after midnight
LegacySunrises == { 6 * MsPerHour, 5 * MsPerHour + 41 * MsPerMinute + 16 * 1000 }

\* the sunset arguments, in ms after midnight: 18:00:00, 18:40:00,
\* 17:12:08, 19:05:48, 18:00:01, 06:00:00, 04:00:00 and 17:59:52
LegacySunsets ==
    { 18 * MsPerHour, 18 * MsPerHour + 40 * MsPerMinute,
      17 * MsPerHour + 12 * MsPerMinute + 8 * 1000,
      19 * MsPerHour + 5 * MsPerMinute + 48 * 1000,
      18 * MsPerHour + 1000, 6 * MsPerHour, 4 * MsPerHour,
      18 * MsPerHour - 8 * 1000 }

\* DateTime.weekday: 1 = Monday .. 7 = Sunday
LuxonWeekday(t) == ((MathFloorDiv(t, MsPerDay) + 3) % 7) + 1

\* the section (1 - 8) of each weekday
dayConfig == <<4, 3, 2, 1, 7, 6, 5>>

\* sunSetTime.diff(sunRiseTime), in ms
LegacyDuration(rise, set) == set - rise

calculateYamaGandam(rise, set) ==
    LET duration         == LegacyDuration(rise, set)
        section          == dayConfig[LuxonWeekday(rise)]
        sectionStartTime == rise + MathFloorDiv((section - 1) * duration, 8)
        endTime          == sectionStartTime + 90 * MsPerMinute
    IN  Window(Some(sectionStartTime), Some(endTime))

InitLegacy ==
    /\ hostOffset = 0
    /\ date \in LegacyDates
    /\ \E r \in LegacySunrises : sunrise = Some(date + r)
    /\ \E t \in LegacySunsets : sunset = Some(date + t)
    /\ wpc = "input"
    /\ windows = [none |-> TRUE]
    /\ IdleElements
    /\ IdlePanchang

CallYamaGandam ==
    /\ wpc = "input"
    /\ wpc' = "yamaGandam"
    /\ windows' = calculateYamaGandam(getTime(sunrise), getTime(sunset))
    /\ UNCHANGED <<hostOffset, date, sunrise, sunset>>
    /\ UNCHANGED <<evars, pvars>>

NextLegacy == CallYamaGandam

SpecLegacy == InitLegacy /\ [][NextLegacy]_vars

\* C30: for every weekday and every sunrise/sunset pair the legacy
\* calculateYamghantKalam returns a window that starts at sunrise +
\* (section - 1) * (dayDuration / 8) for the weekday's section and whose
\* length is one section duration, dayDuration / 8: exactly one of the 8
\* equal sections of the day.
C30_WindowIsOneSection ==
    wpc = "yamaGandam" =>
        LET rise     == getTime(sunrise)
            duration == LegacyDuration(rise, getTime(sunset))
            section  == dayConfig[LuxonWeekday(rise)]
        IN  /\ 8 * (getTime(windows.start) - rise) = (section - 1) * duration
            /\ 8 * WindowLength(windows) = duration

=============================================================================
